---- MODULE Spec2Model ----
(***************************************************************************)
(* Solar Dawn common library: the axial hex-grid coordinate engine         *)
(* (src/src/vec2.rs), the entity id allocator and the solar-system         *)
(* generator GameState::new (src/src/lib.rs), with the constructors of     *)
(* astronomical bodies (src/src/astronomical.rs) and of stacks and their   *)
(* components (src/src/stack.rs).                                          *)
(*                                                                         *)
(* Numbers.  i64/u64 values are TLA+ integers; the id counter keeps a      *)
(* width (IdBits) because its wrap-around is observable.  f64 values are   *)
(* fixed-point: a Cartesian coordinate is an integer number of ticks,      *)
(* Scale ticks to the unit, sqrt(3) is the rational Sqrt3Num / Sqrt3Den,   *)
(* and angles are whole degrees with cos/sin read from a table in ticks.   *)
(***************************************************************************)
EXTENDS Integers, Sequences, FiniteSets, TLC

VARIABLES
    \* ---- coordinate engine harness (vec2.rs) ----
    d,              \* a Displacement under test, [q, r]
    rect,           \* hex_to_rect(d) once computed, <<x, y>> in ticks; <<>> before
    hex,            \* rect_to_hex(rect) once computed, <<q, r>>; <<>> before
    norm_out,       \* <<d.norm()>> once computed; <<>> before
    neg_out,        \* <<(-d).norm()>> once computed; <<>> before
    \* ---- EntityIdGenerator (lib.rs) ----
    next_id,        \* EntityIdGenerator.next_id
    ret,            \* what the last call of next() returned
    calls,          \* number of calls of next() made by the host
    issued,         \* number of those calls that returned Some(id)
    \* ---- GameState::new (lib.rs) ----
    pc,             \* where the call of GameState::new stands
    seed,           \* argument seed
    num_players,    \* argument num_players (u8)
    rng,            \* state of the random stream
    draws,          \* number of samples taken from the random stream
    major_bodies,   \* local HashMap<EntityId, MajorBody>
    minor_bodies,   \* local HashMap<EntityId, MinorBody>
    stacks,         \* local HashMap<EntityId, Stack>
    jupiter_angle,  \* local jupiter_angle, in degrees
    terra_position, \* local terra_position
    mars_position,  \* local mars_position
    last,           \* asteroid_name_generator.last
    loop,           \* the current loop variable: q, distance or player
    game,           \* the GameState returned; <<>> before the call returns
    hasher,         \* the RandomState keys of the HashMaps the call creates
    \* ---- the host of GameState::new ----
    start_id,       \* the allocator's cursor when the host made the call
    first,          \* what an earlier call with the same arguments produced; <<>> if none
    \* ---- AsteroidNameGenerator harness (lib.rs) ----
    named,          \* number of calls of asteroid_name_generator.next() made
    name_out,       \* the String the last of those calls returned; "" before
    \* ---- Displacement::norm on machine integers (vec2.rs) ----
    norm_ret,       \* how d.norm() ended, [panicked, value]; <<>> before
    \* ---- Position / Displacement operators on machine integers (vec2.rs) ----
    op_out          \* the operator applied to d, its other operand and how it ended;
                    \* <<>> before

vecVars == <<d, rect, hex, norm_out, neg_out>>
allocVars == <<next_id, ret, calls, issued>>
genVars == <<pc, seed, num_players, rng, draws, major_bodies, minor_bodies, stacks,
             jupiter_angle, terra_position, mars_position, last, loop, game, hasher,
             start_id, first>>
nameVars == <<named, name_out>>
wideVars == <<norm_ret>>
opsVars == <<op_out>>
vars == <<vecVars, allocVars, genVars, nameVars, wideVars, opsVars>>

(***************************************************************************)
(* Bounds of the model                                                     *)
(***************************************************************************)
\* displacements under test have |q|, |r| <= MaxCoord
MaxCoord == 6
\* width in bits of the id counter (64 in the program)
IdBits == 12
\* calls of next() the host still makes after the allocator is exhausted
MaxNoneCalls == 2
\* seeds the host passes to GameState::new: 0 .. NumSeeds - 1
NumSeeds == 2
\* player counts the host passes: 0 .. MaxPlayersTried, and u8::MAX
MaxPlayersTried == 7
U8Max == 255
\* ids an allocator that is about to run out still has
NearlyOut == 5
\* ids an allocator the host has used before has already issued
IdsAlreadyIssued == 6
\* width in bits of the coordinates of a displacement whose norm is taken on
\* machine integers (64 in the program)
CoordBits == 5
\* Cartesian inputs of rect_to_hex: x = i * GridStepX and y = j * GridStepY ticks
\* for |i|, |j| <= MaxGrid
MaxGrid == 12
GridStepX == 1000
GridStepY == 3900
\* names the host draws from an AsteroidNameGenerator beyond one full period
MaxNamesBeyondPeriod == 2
\* operands of the Position / Displacement operators: every component and scalar
\* is i64::MIN, i64::MAX or at most MaxOperand in magnitude
MaxOperand == 5

(***************************************************************************)
(* Fixed-point f64                                                         *)
(***************************************************************************)
\* ticks per Cartesian unit
Scale == 15600
\* sqrt(3) ~ 1351 / 780
Sqrt3Num == 1351
Sqrt3Den == 780

Abs(x) == IF x < 0 THEN -x ELSE x

RoundTowardZero(n, den) == IF n < 0 THEN -((-n) \div den) ELSE n \div den

\* f64::round of n / den: nearest integer, halves away from zero
Round(n, den) ==
    IF n >= 0 THEN (n + den \div 2) \div den
    ELSE -((-n + den \div 2) \div den)

(***************************************************************************)
(* vec2.rs                                                                 *)
(***************************************************************************)
Position(q, r) == [q |-> q, r |-> r]
Displacement(q, r) == [q |-> q, r |-> r]

\* the larger of |q| and |r|: the distance on a square grid with diagonals
NormChebyshev(v) == IF Abs(v.q) > Abs(v.r) THEN Abs(v.q) ELSE Abs(v.r)

\* u64 norm(&self): (|q| + |r| + |q + r|) / 2
Norm(v) == (Abs(v.q) + Abs(v.r) + Abs(v.q + v.r)) \div 2

\* i64 and u64 at the width CoordBits
I64Min == -(2 ^ (CoordBits - 1))
I64Max == 2 ^ (CoordBits - 1) - 1
U64Limit == 2 ^ CoordBits
wrapping_i64(x) == ((x - I64Min) % U64Limit) + I64Min
wrapping_u64(x) == x % U64Limit
\* i64::unsigned_abs: exact for every i64, i64::MIN included
unsigned_abs(x) == IF x < 0 THEN -x ELSE x

\* Displacement::norm as the build computes it: q + r is an i64 addition and the
\* two outer additions are u64 additions; with overflow checks (debug profile)
\* an addition that overflows panics, without them (release profile) it wraps
norm(v, overflow_checks) ==
    LET q_plus_r == v.q + v.r
        outer1 == unsigned_abs(v.q) + unsigned_abs(v.r)
        outer2 == wrapping_u64(outer1) + unsigned_abs(wrapping_i64(q_plus_r))
        overflowed == \/ q_plus_r < I64Min \/ q_plus_r > I64Max
                      \/ outer1 >= U64Limit
                      \/ outer2 >= U64Limit
    IN  IF overflowed /\ overflow_checks
        THEN [panicked |-> TRUE, value |-> 0]
        ELSE [panicked |-> FALSE, value |-> wrapping_u64(outer2) \div 2]

\* ---- the arithmetic operators of Position and Displacement on i64 ----
\* an i64 +, -, * or unary - whose exact result is x: with overflow checks (debug
\* profile) a result outside i64 panics, without them (release profile) it wraps
i64_arith(x, overflow_checks) ==
    IF (x < I64Min \/ x > I64Max) /\ overflow_checks
    THEN [panicked |-> TRUE, value |-> 0]
    ELSE [panicked |-> FALSE, value |-> wrapping_i64(x)]

\* division rounding toward minus infinity
i64_div_floor(a, k) ==
    IF k = 0 \/ (a = I64Min /\ k = -1)
    THEN [panicked |-> TRUE, value |-> 0]
    ELSE [panicked |-> FALSE,
          value |-> IF (a < 0) = (k < 0) \/ a = 0
                    THEN Abs(a) \div Abs(k)
                    ELSE -((Abs(a) + Abs(k) - 1) \div Abs(k))]

\* i64 / i64: the quotient is truncated toward zero; a zero divisor and
\* i64::MIN / -1 panic in every build profile
i64_div(a, k) ==
    IF k = 0 \/ (a = I64Min /\ k = -1)
    THEN [panicked |-> TRUE, value |-> 0]
    ELSE [panicked |-> FALSE,
          value |-> IF (a < 0) = (k < 0)
                    THEN Abs(a) \div Abs(k)
                    ELSE -(Abs(a) \div Abs(k))]

\* the q statement, then the r statement of a compound assignment: the value is
\* returned only if neither statement panicked
both_components(q_done, r_done) ==
    IF q_done.panicked \/ r_done.panicked
    THEN [panicked |-> TRUE, value |-> [q |-> 0, r |-> 0]]
    ELSE [panicked |-> FALSE, value |-> [q |-> q_done.value, r |-> r_done.value]]

\* add_assign: self.q += rhs.q; self.r += rhs.r (Position and Displacement alike)
add_assign(self, rhs, overflow_checks) ==
    both_components(i64_arith(self.q + rhs.q, overflow_checks),
                    i64_arith(self.r + rhs.r, overflow_checks))

\* sub_assign: self.q -= rhs.q; self.r -= rhs.r (Position and Displacement alike)
sub_assign(self, rhs, overflow_checks) ==
    both_components(i64_arith(self.q - rhs.q, overflow_checks),
                    i64_arith(self.r - rhs.r, overflow_checks))

\* mul_assign: self.q *= rhs; self.r *= rhs
mul_assign(self, rhs, overflow_checks) ==
    both_components(i64_arith(self.q * rhs, overflow_checks),
                    i64_arith(self.r * rhs, overflow_checks))

\* div_assign: self.q /= rhs; self.r /= rhs
div_assign(self, rhs) == both_components(i64_div(self.q, rhs), i64_div(self.r, rhs))

\* impl Add<Displacement> for Position: value = self; value += rhs; value
Position_add(self, rhs, overflow_checks) == add_assign(self, rhs, overflow_checks)

\* impl Sub<Displacement> for Position: value = self; value -= rhs; value
Position_sub(self, rhs, overflow_checks) == sub_assign(self, rhs, overflow_checks)

\* impl Neg for Displacement: Displacement { q: -self.q, r: -self.r }
Displacement_neg(self, overflow_checks) ==
    both_components(i64_arith(-self.q, overflow_checks),
                    i64_arith(-self.r, overflow_checks))

\* impl Add<Displacement> for Displacement
Displacement_add(self, rhs, overflow_checks) == add_assign(self, rhs, overflow_checks)

\* impl Add<Position> for Displacement: rhs + self
Displacement_add_Position(self, rhs, overflow_checks) ==
    Position_add(rhs, self, overflow_checks)

\* impl Sub<Displacement> for Displacement
Displacement_sub(self, rhs, overflow_checks) == sub_assign(self, rhs, overflow_checks)

\* impl Mul<i64> for Displacement: value = self; value *= rhs; value
Displacement_mul(self, rhs, overflow_checks) == mul_assign(self, rhs, overflow_checks)

\* impl Mul<Displacement> for i64: value = rhs; value *= self; value
i64_mul_Displacement(self, rhs, overflow_checks) == mul_assign(rhs, self, overflow_checks)

\* impl Div<i64> for Displacement: value = self; value /= rhs; value
Displacement_div(self, rhs) == div_assign(self, rhs)

\* #[derive(PartialEq, Eq)]: the q fields are equal and the r fields are equal
derived_eq(self, other) == self.q = other.q /\ self.r = other.r

\* impl Neg for Displacement
Neg(v) == [q |-> -v.q, r |-> -v.r]

\* impl Add<Displacement> for Position (via AddAssign)
Add(p, v) == [q |-> p.q + v.q, r |-> p.r + v.r]

\* fn hex_to_rect(q, r) -> (sqrt(3)*q + sqrt(3)/2*r, 3/2*r), in ticks
hex_to_rect(q, r) ==
    << (Sqrt3Num * Scale * (2 * q + r)) \div (2 * Sqrt3Den),
       (3 * Scale * r) \div 2 >>

\* the fractional cube coordinates of rect_to_hex, as numerators over FracDen:
\* q_frac = sqrt(3)*x - y/3, r_frac = 2/3*y, s_frac = -q_frac - r_frac
FracDen == Sqrt3Den * Scale
q_frac(x, y) == Sqrt3Num * x - (Sqrt3Den \div 3) * y
r_frac(x, y) == 2 * (Sqrt3Den \div 3) * y
s_frac(x, y) == -q_frac(x, y) - r_frac(x, y)

\* fn rect_to_hex(x, y) -> (i64, i64): cube rounding
rect_to_hex(x, y) ==
    LET q == Round(q_frac(x, y), FracDen)
        r == Round(r_frac(x, y), FracDen)
        s == Round(s_frac(x, y), FracDen)
        q_diff == Abs(q_frac(x, y) - q * FracDen)
        r_diff == Abs(r_frac(x, y) - r * FracDen)
        s_diff == Abs(s_frac(x, y) - s * FracDen)
    IN  IF q_diff > r_diff /\ q_diff > s_diff THEN << -r - s, r >>
        ELSE IF r_diff > s_diff THEN << q, -q - s >>
        ELSE << q, r >>

\* impl From<(f64, f64)> for Position
PositionFrom(x, y) == LET c == rect_to_hex(x, y) IN Position(c[1], c[2])

(***************************************************************************)
(* Hex adjacency, independent of norm: the six neighbours of a cell in the *)
(* axial system whose cube coordinates are (q, r, -q-r)                    *)
(***************************************************************************)
Neighbours == { <<1, 0>>, <<-1, 0>>, <<0, 1>>, <<0, -1>>, <<1, -1>>, <<-1, 1>> }

\* the least number of steps from the origin to cell c (c within 2*MaxCoord+2 steps)
RECURSIVE StepsFrom(_, _, _)
StepsFrom(c, k, ball) ==
    IF c \in ball THEN k
    ELSE StepsFrom(c, k + 1,
            ball \cup { <<b[1] + n[1], b[2] + n[2]>> : b \in ball, n \in Neighbours })
StepDistance(v) == StepsFrom(<<v.q, v.r>>, 0, { <<0, 0>> })

(***************************************************************************)
(* lib.rs: EntityIdGenerator                                               *)
(***************************************************************************)
IdLimit == 2 ^ IdBits

\* a counter that skips every other id
wrapping_add_two(x) == (x + 2) % IdLimit

\* u64::wrapping_add(1)
wrapping_add(x) == (x + 1) % IdLimit

\* EntityIdGenerator::new()
EntityIdGenerator_new == 1

\* next() without the test for the wrapped counter
EntityIdGenerator_next_unchecked(cursor) ==
    [some |-> TRUE, id |-> cursor, next_id |-> wrapping_add(cursor)]

\* Iterator::next(&mut self) -> Option<EntityId>
\* the result together with the generator's next_id afterwards
EntityIdGenerator_next(cursor) ==
    IF cursor # 0
    THEN [some |-> TRUE, id |-> cursor, next_id |-> wrapping_add(cursor)]
    ELSE [some |-> FALSE, id |-> 0, next_id |-> cursor]

NoRet == [some |-> FALSE, id |-> 0]

(***************************************************************************)
(* f64 trigonometry on whole degrees                                       *)
(***************************************************************************)
\* cos of 0..90 degrees, in ticks (entry i + 1 is cos(i degrees))
CosTable ==
    << 15600, 15598, 15590, 15579, 15562, 15541, 15515, 15484, 15448, 15408,
       15363, 15313, 15259, 15200, 15137, 15068, 14996, 14918, 14836, 14750,
       14659, 14564, 14464, 14360, 14251, 14138, 14021, 13900, 13774, 13644,
       13510, 13372, 13230, 13083, 12933, 12779, 12621, 12459, 12293, 12123,
       11950, 11773, 11593, 11409, 11222, 11031, 10837, 10639, 10438, 10235,
       10027, 9817, 9604, 9388, 9169, 8948, 8723, 8496, 8267, 8035,
       7800, 7563, 7324, 7082, 6839, 6593, 6345, 6095, 5844, 5591,
       5336, 5079, 4821, 4561, 4300, 4038, 3774, 3509, 3243, 2977,
       2709, 2440, 2171, 1901, 1631, 1360, 1088, 816, 544, 272, 0 >>

\* the circle in degrees: TAU, PI and PI / 3
Tau == 360
Pi == 180
PiThird == 60

\* f64::cos and f64::sin of an angle in degrees (any sign, any size), in ticks
Cos(a) ==
    LET t == a % Tau
    IN  IF t <= 90 THEN CosTable[t + 1]
        ELSE IF t <= 180 THEN -CosTable[180 - t + 1]
        ELSE IF t <= 270 THEN -CosTable[t - 180 + 1]
        ELSE CosTable[360 - t + 1]
Sin(a) == Cos(a - 90)

(***************************************************************************)
(* The seeded random stream (ChaCha20Rng in the program): a deterministic  *)
(* generator whose state advances once per sample                          *)
(***************************************************************************)
RngMod == 65536
RngMul == 25173
RngInc == 13849
SeedMul == 7919

\* a generator keyed by the seed and by the player count
from_seed_and_players(s) == ((s + num_players) * SeedMul + 1) % RngMod

\* ChaCha20Rng::from_seed(*seed)
from_seed(s) == (s * SeedMul + 1) % RngMod

\* the generator's state after one more sample
rng_step(state) == (RngMul * state + RngInc) % RngMod

\* Uniform::from(0.0..TAU).sample(&mut rng), from the state after the step
angle_sample(state) == (state * Tau) \div RngMod

\* WeightedIndex::new([7, 6, 5, 4, 3, 2, 1]): the weights and the index a roll
\* below the total weight selects
resource_weights == <<7, 6, 5, 4, 3, 2, 1>>
RECURSIVE WeightSum(_)
WeightSum(i) == IF i = 0 THEN 0 ELSE resource_weights[i] + WeightSum(i - 1)
TotalWeight == WeightSum(Len(resource_weights))
WeightedIndex(roll) ==
    CHOOSE i \in 1 .. Len(resource_weights) :
        WeightSum(i - 1) <= roll /\ roll < WeightSum(i)

\* resource_values[resource_index_distribution.sample(&mut rng)]
resource_values == <<0, 1, 2, 3, 4, 5, 6>>
resource_sample(state) == resource_values[WeightedIndex((state * TotalWeight) \div RngMod)]

(***************************************************************************)
(* astronomical.rs and stack.rs: constructors.  Each takes the allocator's *)
(* cursor and yields the entity, the cursor afterwards and whether         *)
(* id_generator.next().unwrap() panicked                                   *)
(***************************************************************************)
next_unwrap_twice(cursor) ==
    LET got == EntityIdGenerator_next(cursor)
        again == EntityIdGenerator_next(got.next_id)
    IN  [id |-> again.id, next_id |-> again.next_id,
         panicked |-> ~got.some \/ ~again.some]

\* id_generator.next().unwrap()
next_unwrap(cursor) ==
    LET got == EntityIdGenerator_next(cursor)
    IN  [id |-> got.id, next_id |-> got.next_id, panicked |-> ~got.some]

MajorBody_new(name, cursor, position, radius, colour) ==
    LET a == next_unwrap(cursor)
    IN  [body |-> [name |-> name, id |-> a.id, position |-> position,
                   radius |-> radius, colour |-> colour],
         next_id |-> a.next_id, panicked |-> a.panicked]

MinorBody_new(name, cursor, position, radius, ice_abundance, ore_abundance) ==
    LET a == next_unwrap(cursor)
    IN  [body |-> [name |-> name, id |-> a.id, position |-> position,
                   radius |-> radius, ice_abundance |-> ice_abundance,
                   ore_abundance |-> ore_abundance],
         next_id |-> a.next_id, panicked |-> a.panicked]

\* HashMap::new()
EmptyMap == <<>>

\* the keys std's RandomState may give the maps of one call
RandomStates == {0, 1}

\* HashMap::insert(key, value)
Insert(map, key, value) == (key :> value) @@ map

\* Stack::new that leaves the owner at player 0 whatever it is given
Stack_new_first_owner(name, cursor, position, velocity, owner) ==
    LET a == next_unwrap(cursor)
    IN  [stack |-> [name |-> name, id |-> a.id, position |-> position,
                    velocity |-> velocity, owner |-> 0,
                    fuel_tanks |-> EmptyMap, cargo_holds |-> EmptyMap,
                    engines |-> EmptyMap, guns |-> EmptyMap,
                    launch_clamps |-> EmptyMap, habitats |-> EmptyMap,
                    miners |-> EmptyMap, factories |-> EmptyMap,
                    armour_plates |-> EmptyMap],
         next_id |-> a.next_id, panicked |-> a.panicked]

Stack_new(name, cursor, position, velocity, owner) ==
    LET a == next_unwrap(cursor)
    IN  [stack |-> [name |-> name, id |-> a.id, position |-> position,
                    velocity |-> velocity, owner |-> owner,
                    fuel_tanks |-> EmptyMap, cargo_holds |-> EmptyMap,
                    engines |-> EmptyMap, guns |-> EmptyMap,
                    launch_clamps |-> EmptyMap, habitats |-> EmptyMap,
                    miners |-> EmptyMap, factories |-> EmptyMap,
                    armour_plates |-> EmptyMap],
         next_id |-> a.next_id, panicked |-> a.panicked]

CargoList_new(ice, ore, materials, warheads) ==
    [ice |-> ice, ore |-> ore, materials |-> materials, warheads |-> warheads]

FuelTank_new(cursor) ==
    LET a == next_unwrap(cursor)
    IN  [component |-> [id |-> a.id, damaged |-> FALSE, fuel |-> 0],
         next_id |-> a.next_id, panicked |-> a.panicked]

CargoHold_new(cursor) ==
    LET a == next_unwrap(cursor)
    IN  [component |-> [id |-> a.id, damaged |-> FALSE,
                        inventory |-> CargoList_new(0, 0, 0, 0)],
         next_id |-> a.next_id, panicked |-> a.panicked]

Habitat_new(cursor, owner) ==
    LET a == next_unwrap(cursor)
    IN  [component |-> [id |-> a.id, damaged |-> FALSE, owner |-> owner],
         next_id |-> a.next_id, panicked |-> a.panicked]

Factory_new(cursor) ==
    LET a == next_unwrap(cursor)
    IN  [component |-> [id |-> a.id, damaged |-> FALSE],
         next_id |-> a.next_id, panicked |-> a.panicked]

(***************************************************************************)
(* lib.rs: GameState::new, constants                                       *)
(***************************************************************************)
\* assert!((2..=6).contains(&num_players))
MinPlayers == 2
MaxPlayersOffByOne == 6 + 1
MaxPlayers == 6

\* orbital radii, in hexes of the Cartesian plane
MercuryRadius == 6
VenusRadius == 12
TerraRadius == 16
MarsRadius == 24
JupiterRadius == 40

\* asteroid belt: for q in -36..=36, radius 29 - 36
BeltOuter == 36
BeltInner == 29

\* trojans and greeks: for distance in 38..=42; hildas: for distance in 32..38
TrojanNear == 38
TrojanFar == 42
HildaNear == 32
HildaEndInclusive == 38 + 1
HildaEnd == 38
\* for step in -15..=15
StepMax == 15

\* AsteroidNameGenerator
NameStep == 13121
NameMod == 60000
NameBase == 10000

\* fuel_tank.fuel = 20; cargo_hold.inventory.materials = 20
StartingFuel == 20
StartingMaterials == 20

\* AsteroidNameGenerator::next: self.last += STEP; self.last %= 60_000;
\* format!("{}", self.last + 10_000)
AsteroidNameGenerator_next_even_step(last_name) ==
    LET stepped == (last_name + NameStep - 1) % NameMod
    IN  [last |-> stepped, name |-> ToString(stepped + NameBase)]
AsteroidNameGenerator_next(last_name) ==
    LET stepped == (last_name + NameStep) % NameMod
    IN  [last |-> stepped, name |-> ToString(stepped + NameBase)]

STARTING_STATION_NAMES ==
    << "Space Station Freedom", "Mir", "Tiangong", "Bharatiya Antariksha Station",
       "Tokyo Gateway", "Berlin Highport" >>

\* match num_players { 2 => vec![...], ..., 6 => vec![...], _ => panic!(...) }
\* each entry is (home offset, velocity); <<>> stands for the panic arm
starting_station_orbital_elements(n) ==
    CASE n = 2 -> << <<Displacement(0, -1), Displacement(1, 1)>>,
                     <<Displacement(0, 1), Displacement(-1, -1)>> >>
      [] n = 3 -> << <<Displacement(0, -1), Displacement(1, 1)>>,
                     <<Displacement(1, 1), Displacement(-1, 0)>>,
                     <<Displacement(-1, 0), Displacement(0, -1)>> >>
      [] n = 4 -> << <<Displacement(0, -1), Displacement(1, 1)>>,
                     <<Displacement(1, 0), Displacement(0, 1)>>,
                     <<Displacement(0, 1), Displacement(-1, -1)>>,
                     <<Displacement(-1, 0), Displacement(0, -1)>> >>
      [] n = 5 -> << <<Displacement(0, -1), Displacement(1, 1)>>,
                     <<Displacement(1, 0), Displacement(0, 1)>>,
                     <<Displacement(1, 1), Displacement(-1, 0)>>,
                     <<Displacement(0, 1), Displacement(-1, -1)>>,
                     <<Displacement(-1, 0), Displacement(0, -1)>> >>
      [] n = 6 -> << <<Displacement(0, -1), Displacement(1, 1)>>,
                     <<Displacement(1, 0), Displacement(0, 1)>>,
                     <<Displacement(1, 1), Displacement(-1, 0)>>,
                     <<Displacement(0, 1), Displacement(-1, -1)>>,
                     <<Displacement(-1, 0), Displacement(0, -1)>>,
                     <<Displacement(-1, -1), Displacement(1, 0)>> >>
      [] OTHER -> <<>>

\* the position a body at the given orbital radius and angle is created at:
\* (radius * angle.cos(), radius * angle.sin()).into()
Orbit(radius, angle) == PositionFrom(radius * Cos(angle), radius * Sin(angle))

BeltDistanceLargestCoordinate(q, r) == IF Abs(q) > Abs(r) THEN Abs(q) ELSE Abs(r)

\* (q.unsigned_abs() + r.unsigned_abs() + (q + r).unsigned_abs()) / 2
BeltDistance(q, r) == (Abs(q) + Abs(r) + Abs(q + r)) \div 2

Max(a, b) == IF a > b THEN a ELSE b
Min(a, b) == IF a < b THEN a ELSE b

\* if ice_abundance == 0 && ore_abundance == 0 { continue; }
BothZeroTypo(ice_abundance, ore_abundance) == ice_abundance = 0 /\ ore_abundance # 0
BothZero(ice_abundance, ore_abundance) == ice_abundance = 0 /\ ore_abundance = 0

\* the same scan looking only at the body the map's iterator yields first, which
\* is decided by the map's RandomState
AnyAtFirstYielded(map, position) ==
    LET k == IF hasher = 0 THEN CHOOSE j \in DOMAIN map : TRUE
             ELSE CHOOSE j \in DOMAIN map : j + 1 \notin DOMAIN map
    IN  map[k].position = position

AnyAtUnchecked(map, position) == FALSE

\* minor_bodies.iter().any(|(_, body)| body.position == position)
AnyAt(map, position) == \E k \in DOMAIN map : map[k].position = position

(***************************************************************************)
(* The loop bodies of GameState::new.  g is the part of the frame a loop   *)
(* changes: [rng, draws, next_id, last, minor, panicked]                   *)
(***************************************************************************)
\* MinorBody::new(&asteroid_name_generator.next(), id_generator, position, 0.2,
\*                ice_abundance, ore_abundance); minor_bodies.insert(...)
EmitAsteroid(g, position, ice_abundance, ore_abundance) ==
    LET named_as == AsteroidNameGenerator_next(g.last)
        made == MinorBody_new(named_as.name, g.next_id, position, 2,
                              ice_abundance, ore_abundance)
    IN  IF made.panicked
        THEN [g EXCEPT !.last = named_as.last, !.panicked = TRUE]
        ELSE [g EXCEPT !.last = named_as.last, !.next_id = made.next_id,
                       !.minor = Insert(@, made.body.id, made.body)]

\* for r in max(-36, -q - 36)..=min(36, -q + 36) { ... }, from r on
RECURSIVE BeltCells(_, _, _, _)
BeltCells(q, r, r_last, g) ==
    IF r > r_last \/ g.panicked THEN g
    ELSE IF BeltDistance(q, r) < BeltInner THEN BeltCells(q, r + 1, r_last, g)
    ELSE
        LET s1 == rng_step(g.rng)
            s2 == rng_step(s1)
            ice_abundance == resource_sample(s1)
            ore_abundance == resource_sample(s2)
            sampled == [g EXCEPT !.rng = s2, !.draws = @ + 2]
        IN  IF BothZero(ice_abundance, ore_abundance)
            THEN BeltCells(q, r + 1, r_last, sampled)
            ELSE BeltCells(q, r + 1, r_last,
                    EmitAsteroid(sampled, Position(q, r), ice_abundance, ore_abundance))

\* for step in -15..=15 { ... } of the trojans (offset PI / 3), the greeks
\* (offset -PI / 3) and the hildas (offset PI), from step on
RECURSIVE ClusterSteps(_, _, _, _, _)
ClusterSteps(distance, step, offset, jupiter, g) ==
    IF step > StepMax \/ g.panicked THEN g
    ELSE
        LET s1 == rng_step(g.rng)
            s2 == rng_step(s1)
            ice_abundance == resource_sample(s1)
            ore_abundance == resource_sample(s2)
            sampled == [g EXCEPT !.rng = s2, !.draws = @ + 2]
            angle == jupiter + step + offset
            position == Orbit(distance, angle)
        IN  IF BothZero(ice_abundance, ore_abundance)
            THEN ClusterSteps(distance, step + 1, offset, jupiter, sampled)
            ELSE IF AnyAt(sampled.minor, position)
            THEN ClusterSteps(distance, step + 1, offset, jupiter, sampled)
            ELSE ClusterSteps(distance, step + 1, offset, jupiter,
                    EmitAsteroid(sampled, position, ice_abundance, ore_abundance))

\* the body of for player in 0..num_players { ... }: the station of one player,
\* [stack, next_id, panicked]
StartingStation(player, cursor, terra, elements) ==
    LET station == Stack_new(STARTING_STATION_NAMES[player + 1], cursor,
                             Add(terra, elements[player + 1][1]),
                             elements[player + 1][2], player)
        factory == Factory_new(station.next_id)
        habitat == Habitat_new(factory.next_id, player)
        fuel_tank1 == FuelTank_new(habitat.next_id)
        fuel_tank2 == FuelTank_new(fuel_tank1.next_id)
        cargo_hold1 == CargoHold_new(fuel_tank2.next_id)
        cargo_hold2 == CargoHold_new(cargo_hold1.next_id)
        cargo_hold3 == CargoHold_new(cargo_hold2.next_id)
        full(tank) == [tank.component EXCEPT !.fuel = StartingFuel]
        laden(hold) == [hold.component EXCEPT !.inventory.materials = StartingMaterials]
    IN  [stack |->
            [station.stack EXCEPT
                !.factories = Insert(@, factory.component.id, factory.component),
                !.habitats = Insert(@, habitat.component.id, habitat.component),
                !.fuel_tanks = Insert(Insert(@, fuel_tank1.component.id, full(fuel_tank1)),
                                      fuel_tank2.component.id, full(fuel_tank2)),
                !.cargo_holds = Insert(Insert(Insert(@,
                                      cargo_hold1.component.id, laden(cargo_hold1)),
                                      cargo_hold2.component.id, laden(cargo_hold2)),
                                      cargo_hold3.component.id, laden(cargo_hold3))],
         next_id |-> cargo_hold3.next_id,
         panicked |-> \/ station.panicked \/ factory.panicked \/ habitat.panicked
                      \/ fuel_tank1.panicked \/ fuel_tank2.panicked
                      \/ cargo_hold1.panicked \/ cargo_hold2.panicked
                      \/ cargo_hold3.panicked]

(***************************************************************************)
(* GameState::new as a process: one action per block of the function       *)
(***************************************************************************)
NoPosition == Position(0, 0)

\* the frame before the call
NoFrame ==
    /\ rng = 0
    /\ draws = 0
    /\ major_bodies = EmptyMap
    /\ minor_bodies = EmptyMap
    /\ stacks = EmptyMap
    /\ jupiter_angle = 0
    /\ terra_position = NoPosition
    /\ mars_position = NoPosition
    /\ last = 0
    /\ loop = 0

\* the locals are dropped when the call returns or unwinds
DropFrame ==
    /\ rng' = 0
    /\ draws' = 0
    /\ major_bodies' = EmptyMap
    /\ minor_bodies' = EmptyMap
    /\ stacks' = EmptyMap
    /\ jupiter_angle' = 0
    /\ terra_position' = NoPosition
    /\ mars_position' = NoPosition
    /\ last' = 0
    /\ loop' = 0

\* a panic unwinds the call: the locals are dropped, nothing is returned and the
\* caller's allocator stays as the failed step left it
Panic(cursor) ==
    /\ pc' = "panicked"
    /\ DropFrame
    /\ next_id' = cursor
    /\ UNCHANGED <<game, seed, num_players, hasher, start_id, first>>

\* assert!((2..=6).contains(&num_players), "did not have 2-6 players");
\* ChaCha20Rng::from_seed(*seed); HashMap::new() x 3
Begin ==
    /\ pc = "call"
    /\ IF num_players >= MinPlayers /\ num_players <= MaxPlayers
       THEN /\ pc' = "sol"
            /\ rng' = from_seed(seed)
            /\ hasher' \in RandomStates
            /\ UNCHANGED <<draws, major_bodies, minor_bodies, stacks, jupiter_angle,
                           terra_position, mars_position, last, loop, next_id>>
            /\ UNCHANGED <<game, seed, num_players, start_id, first>>
       ELSE Panic(next_id)
    /\ UNCHANGED <<vecVars, ret, calls, issued, nameVars, wideVars, opsVars>>

\* a block that creates one major body at a sampled angle
PlaceOrbiting(at, then, name, radius, size, colour) ==
    /\ pc = at
    /\ LET s == rng_step(rng)
           angle == angle_sample(s)
           made == MajorBody_new(name, next_id, Orbit(radius, angle), size, colour)
       IN  IF made.panicked THEN Panic(made.next_id)
           ELSE /\ pc' = then
                /\ rng' = s
                /\ draws' = draws + 1
                /\ major_bodies' = Insert(major_bodies, made.body.id, made.body)
                /\ next_id' = made.next_id
                /\ mars_position' = IF name = "Mars" THEN made.body.position
                                    ELSE mars_position
                /\ UNCHANGED <<minor_bodies, stacks, jupiter_angle, terra_position,
                               last, loop, game, seed, num_players, hasher, start_id, first>>
    /\ UNCHANGED <<vecVars, ret, calls, issued, nameVars, wideVars, opsVars>>

PlaceSol ==
    /\ pc = "sol"
    /\ LET made == MajorBody_new("Sol", next_id, Position(0, 0), 8, "#ffff00")
       IN  IF made.panicked THEN Panic(made.next_id)
           ELSE /\ pc' = "mercury"
                /\ major_bodies' = Insert(major_bodies, made.body.id, made.body)
                /\ next_id' = made.next_id
                /\ UNCHANGED <<rng, draws, minor_bodies, stacks, jupiter_angle,
                               terra_position, mars_position, last, loop, game,
                               seed, num_players, hasher, start_id, first>>
    /\ UNCHANGED <<vecVars, ret, calls, issued, nameVars, wideVars, opsVars>>

PlaceMercury == PlaceOrbiting("mercury", "venus", "Mercury", MercuryRadius, 3, "#404040")

PlaceVenusAsMercury ==
    PlaceOrbiting("venus", "terra", "Mercury", VenusRadius, 6, "#ffc000")

PlaceVenus == PlaceOrbiting("venus", "terra", "Venus", VenusRadius, 6, "#ffc000")

\* terra + luna - always at 3 o'clock
PlaceTerraLuna ==
    /\ pc = "terra"
    /\ LET terra == MajorBody_new("Terra", next_id,
                                  PositionFrom(TerraRadius * Scale, 0), 6, "#0000ff")
           luna == MajorBody_new("Luna", terra.next_id,
                                 Add(terra.body.position, Displacement(3, 2)), 4, "#808080")
       IN  IF terra.panicked \/ luna.panicked THEN Panic(luna.next_id)
           ELSE /\ pc' = "mars"
                /\ terra_position' = terra.body.position
                /\ major_bodies' = Insert(Insert(major_bodies, terra.body.id, terra.body),
                                          luna.body.id, luna.body)
                /\ next_id' = luna.next_id
                /\ UNCHANGED <<rng, draws, minor_bodies, stacks, jupiter_angle,
                               mars_position, last, loop, game, seed, num_players, hasher, start_id, first>>
    /\ UNCHANGED <<vecVars, ret, calls, issued, nameVars, wideVars, opsVars>>

PlaceMars == PlaceOrbiting("mars", "jupiter", "Mars", MarsRadius, 5, "#ff0000")

\* jupiter + moons
PlaceJupiter ==
    /\ pc = "jupiter"
    /\ LET s == rng_step(rng)
           angle == angle_sample(s)
           jupiter == MajorBody_new("Jupiter", next_id, Orbit(JupiterRadius, angle),
                                    8, "#ffc000")
           europa == MajorBody_new("Europa", jupiter.next_id,
                                   Add(jupiter.body.position, Displacement(0, 3)),
                                   3, "#a0a0ff")
           callisto == MajorBody_new("Callisto", europa.next_id,
                                     Add(jupiter.body.position, Displacement(-4, 0)),
                                     3, "#404040")
           ganymede == MajorBody_new("Ganymede", callisto.next_id,
                                     Add(jupiter.body.position, Displacement(4, -2)),
                                     3, "#404040")
       IN  IF jupiter.panicked \/ europa.panicked \/ callisto.panicked \/ ganymede.panicked
           THEN Panic(ganymede.next_id)
           ELSE /\ pc' = "phobos"
                /\ rng' = s
                /\ draws' = draws + 1
                /\ jupiter_angle' = angle
                /\ major_bodies' =
                        Insert(Insert(Insert(Insert(major_bodies,
                            jupiter.body.id, jupiter.body),
                            europa.body.id, europa.body),
                            callisto.body.id, callisto.body),
                            ganymede.body.id, ganymede.body)
                /\ next_id' = ganymede.next_id
                /\ UNCHANGED <<minor_bodies, stacks, terra_position, mars_position,
                               last, loop, game, seed, num_players, hasher, start_id, first>>
    /\ UNCHANGED <<vecVars, ret, calls, issued, nameVars, wideVars, opsVars>>

\* phobos, deimos; AsteroidNameGenerator::new()
PlacePhobosDeimos ==
    /\ pc = "phobos"
    /\ LET phobos == MinorBody_new("Phobos", next_id,
                                   Add(mars_position, Displacement(0, -2)), 2, 1, 0)
           deimos == MinorBody_new("Deimos", phobos.next_id,
                                   Add(mars_position, Displacement(3, 0)), 2, 1, 0)
       IN  IF phobos.panicked \/ deimos.panicked THEN Panic(deimos.next_id)
           ELSE /\ pc' = "belt"
                /\ minor_bodies' = Insert(Insert(minor_bodies, phobos.body.id, phobos.body),
                                          deimos.body.id, deimos.body)
                /\ next_id' = deimos.next_id
                /\ last' = 0
                /\ loop' = -BeltOuter
                /\ UNCHANGED <<rng, draws, major_bodies, stacks, jupiter_angle,
                               terra_position, mars_position, game, seed, num_players, hasher, start_id, first>>
    /\ UNCHANGED <<vecVars, ret, calls, issued, nameVars, wideVars, opsVars>>

\* the loops' view of the frame, and the frame after a loop body
LoopFrame ==
    [rng |-> rng, draws |-> draws, next_id |-> next_id, last |-> last,
     minor |-> minor_bodies, panicked |-> FALSE]

AfterLoop(g, then, loop_next) ==
    IF g.panicked THEN Panic(g.next_id)
    ELSE /\ pc' = then
         /\ rng' = g.rng
         /\ draws' = g.draws
         /\ next_id' = g.next_id
         /\ last' = g.last
         /\ minor_bodies' = g.minor
         /\ loop' = loop_next
         /\ UNCHANGED <<major_bodies, stacks, jupiter_angle, terra_position,
                        mars_position, game, seed, num_players, hasher, start_id, first>>

\* one iteration of for q in -36_i64..=36 { for r in ... }
BeltColumn ==
    /\ pc = "belt"
    /\ LET g == BeltCells(loop, Max(-BeltOuter, -loop - BeltOuter),
                          Min(BeltOuter, -loop + BeltOuter), LoopFrame)
       IN  IF loop < BeltOuter THEN AfterLoop(g, "belt", loop + 1)
           ELSE AfterLoop(g, "trojans", TrojanNear)
    /\ UNCHANGED <<vecVars, ret, calls, issued, nameVars, wideVars, opsVars>>

\* one iteration of for distance in 38..=42 { for step in -15..=15 } (trojans)
TrojanBand ==
    /\ pc = "trojans"
    /\ LET g == ClusterSteps(loop, -StepMax, PiThird, jupiter_angle, LoopFrame)
       IN  IF loop < TrojanFar THEN AfterLoop(g, "trojans", loop + 1)
           ELSE AfterLoop(g, "greeks", TrojanNear)
    /\ UNCHANGED <<vecVars, ret, calls, issued, nameVars, wideVars, opsVars>>

\* one iteration of for distance in 38..=42 { for step in -15..=15 } (greeks)
GreekBand ==
    /\ pc = "greeks"
    /\ LET g == ClusterSteps(loop, -StepMax, -PiThird, jupiter_angle, LoopFrame)
       IN  IF loop < TrojanFar THEN AfterLoop(g, "greeks", loop + 1)
           ELSE AfterLoop(g, "hildas", HildaNear)
    /\ UNCHANGED <<vecVars, ret, calls, issued, nameVars, wideVars, opsVars>>

\* one iteration of for distance in 32..38 { for step in -15..=15 } (hildas)
HildaBand ==
    /\ pc = "hildas"
    /\ LET g == ClusterSteps(loop, -StepMax, Pi, jupiter_angle, LoopFrame)
       IN  IF loop + 1 < HildaEnd THEN AfterLoop(g, "hildas", loop + 1)
           ELSE AfterLoop(g, "elements", 0)
    /\ UNCHANGED <<vecVars, ret, calls, issued, nameVars, wideVars, opsVars>>

\* let starting_station_orbital_elements = match num_players { ... }
SelectElements ==
    /\ pc = "elements"
    /\ IF starting_station_orbital_elements(num_players) = <<>>
       THEN Panic(next_id)
       ELSE /\ pc' = "stations"
            /\ UNCHANGED <<rng, draws, major_bodies, minor_bodies, stacks, jupiter_angle,
                           terra_position, mars_position, last, loop, next_id>>
            /\ UNCHANGED <<game, seed, num_players, hasher, start_id, first>>
    /\ UNCHANGED <<vecVars, ret, calls, issued, nameVars, wideVars, opsVars>>

\* one iteration of for player in 0..num_players { ... }
PlaceStation ==
    /\ pc = "stations"
    /\ loop < num_players
    /\ LET made == StartingStation(loop, next_id, terra_position,
                                   starting_station_orbital_elements(num_players))
       IN  IF made.panicked THEN Panic(made.next_id)
           ELSE /\ stacks' = Insert(stacks, made.stack.id, made.stack)
                /\ next_id' = made.next_id
                /\ loop' = loop + 1
                /\ UNCHANGED <<pc, rng, draws, major_bodies, minor_bodies, jupiter_angle,
                               terra_position, mars_position, last, game, seed,
                               num_players, hasher, start_id, first>>
    /\ UNCHANGED <<vecVars, ret, calls, issued, nameVars, wideVars, opsVars>>

\* Self { major_bodies, minor_bodies, stacks, warheads: HashMap::new(),
\*        phase: Phase::Economic }
Return ==
    /\ pc = "stations"
    /\ loop >= num_players
    /\ pc' = "done"
    /\ game' = [major_bodies |-> major_bodies, minor_bodies |-> minor_bodies,
                stacks |-> stacks, warheads |-> EmptyMap, phase |-> "Economic"]
    /\ DropFrame
    /\ UNCHANGED <<next_id, seed, num_players, hasher, start_id, first>>
    /\ UNCHANGED <<vecVars, ret, calls, issued, nameVars, wideVars, opsVars>>

(***************************************************************************)
(* Specification of the coordinate engine: each initial state holds one    *)
(* displacement, the actions apply the engine's functions to it            *)
(***************************************************************************)
Coords == (-MaxCoord) .. MaxCoord

AllocIdle ==
    /\ next_id = EntityIdGenerator_new
    /\ ret = NoRet
    /\ calls = 0
    /\ issued = 0

GenIdle ==
    /\ pc = "idle"
    /\ seed = 0
    /\ num_players = 0
    /\ NoFrame
    /\ game = <<>>
    /\ hasher = 0
    /\ start_id = EntityIdGenerator_new
    /\ first = <<>>

NameIdle ==
    /\ named = 0
    /\ name_out = ""

WideIdle == norm_ret = <<>>

OpsIdle == op_out = <<>>

VecIdle ==
    /\ d = Displacement(0, 0)
    /\ rect = <<>>
    /\ hex = <<>>
    /\ norm_out = <<>>
    /\ neg_out = <<>>

InitVec ==
    /\ d \in { Displacement(q, r) : q \in Coords, r \in Coords }
    /\ rect = <<>>
    /\ hex = <<>>
    /\ norm_out = <<>>
    /\ neg_out = <<>>
    /\ AllocIdle
    /\ GenIdle
    /\ NameIdle
    /\ WideIdle
    /\ OpsIdle

HexToRect ==
    /\ rect = <<>>
    /\ rect' = hex_to_rect(d.q, d.r)
    /\ UNCHANGED <<d, hex, norm_out, neg_out, allocVars, genVars, nameVars, wideVars, opsVars>>

RectToHex ==
    /\ rect # <<>>
    /\ hex = <<>>
    /\ hex' = rect_to_hex(rect[1], rect[2])
    /\ UNCHANGED <<d, rect, norm_out, neg_out, allocVars, genVars, nameVars, wideVars, opsVars>>

TakeNorm ==
    /\ norm_out = <<>>
    /\ norm_out' = << Norm(d) >>
    /\ UNCHANGED <<d, rect, hex, neg_out, allocVars, genVars, nameVars, wideVars, opsVars>>

TakeNegNorm ==
    /\ neg_out = <<>>
    /\ neg_out' = << Norm(Neg(d)) >>
    /\ UNCHANGED <<d, rect, hex, norm_out, allocVars, genVars, nameVars, wideVars, opsVars>>

NextVec == HexToRect \/ RectToHex \/ TakeNorm \/ TakeNegNorm

SpecVec == InitVec /\ [][NextVec]_vars

(***************************************************************************)
(* Specification of cube rounding: each initial state holds one Cartesian  *)
(* point of a grid, rect_to_hex is applied to it                           *)
(***************************************************************************)
Grid == (-MaxGrid) .. MaxGrid

InitRound ==
    /\ d = Displacement(0, 0)
    /\ rect \in { << i * GridStepX, j * GridStepY >> : i \in Grid, j \in Grid }
    /\ hex = <<>>
    /\ norm_out = <<>>
    /\ neg_out = <<>>
    /\ AllocIdle
    /\ GenIdle
    /\ NameIdle
    /\ WideIdle
    /\ OpsIdle

NextRound == RectToHex

SpecRound == InitRound /\ [][NextRound]_vars

(***************************************************************************)
(* Specification of the operators: each initial state holds a displacement *)
(* d; one operator is applied to it and to another operand                 *)
(***************************************************************************)
Operands == ((-MaxOperand) .. MaxOperand) \cup {I64Min, I64Max}

Points == { [q |-> a, r |-> b] : a \in Operands, b \in Operands }

InitOps ==
    /\ d \in Points
    /\ rect = <<>>
    /\ hex = <<>>
    /\ norm_out = <<>>
    /\ neg_out = <<>>
    /\ AllocIdle
    /\ GenIdle
    /\ NameIdle
    /\ WideIdle
    /\ OpsIdle

\* pos + displacement
PositionAdd ==
    /\ op_out = <<>>
    /\ \E pos \in Points, overflow_checks \in BOOLEAN :
           op_out' = [op |-> "Position + Displacement", lhs |-> pos, rhs |-> d,
                      out |-> Position_add(pos, d, overflow_checks)]
    /\ UNCHANGED <<vecVars, allocVars, genVars, nameVars, wideVars>>

\* pos - displacement
PositionSub ==
    /\ op_out = <<>>
    /\ \E pos \in Points, overflow_checks \in BOOLEAN :
           op_out' = [op |-> "Position - Displacement", lhs |-> pos, rhs |-> d,
                      out |-> Position_sub(pos, d, overflow_checks)]
    /\ UNCHANGED <<vecVars, allocVars, genVars, nameVars, wideVars>>

\* (pos + displacement) - displacement
PositionAddSub ==
    /\ op_out = <<>>
    /\ \E pos \in Points, overflow_checks \in BOOLEAN :
           LET sum == Position_add(pos, d, overflow_checks)
           IN  op_out' = [op |-> "(Position + Displacement) - Displacement",
                          lhs |-> pos, rhs |-> d,
                          out |-> IF sum.panicked THEN sum
                                  ELSE Position_sub(sum.value, d, overflow_checks)]
    /\ UNCHANGED <<vecVars, allocVars, genVars, nameVars, wideVars>>

\* displacement + pos, and pos + displacement beside it
DisplacementAddPosition ==
    /\ op_out = <<>>
    /\ \E pos \in Points, overflow_checks \in BOOLEAN :
           op_out' = [op |-> "Displacement + Position", lhs |-> d, rhs |-> pos,
                      out |-> Displacement_add_Position(d, pos, overflow_checks),
                      swapped |-> Position_add(pos, d, overflow_checks)]
    /\ UNCHANGED <<vecVars, allocVars, genVars, nameVars, wideVars>>

\* a + b
DisplacementAdd ==
    /\ op_out = <<>>
    /\ \E b \in Points, overflow_checks \in BOOLEAN :
           op_out' = [op |-> "Displacement + Displacement", lhs |-> d, rhs |-> b,
                      out |-> Displacement_add(d, b, overflow_checks)]
    /\ UNCHANGED <<vecVars, allocVars, genVars, nameVars, wideVars>>

\* a - b
DisplacementSub ==
    /\ op_out = <<>>
    /\ \E b \in Points, overflow_checks \in BOOLEAN :
           op_out' = [op |-> "Displacement - Displacement", lhs |-> d, rhs |-> b,
                      out |-> Displacement_sub(d, b, overflow_checks)]
    /\ UNCHANGED <<vecVars, allocVars, genVars, nameVars, wideVars>>

\* -a
DisplacementNeg ==
    /\ op_out = <<>>
    /\ \E overflow_checks \in BOOLEAN :
           op_out' = [op |-> "-Displacement", lhs |-> d,
                      out |-> Displacement_neg(d, overflow_checks)]
    /\ UNCHANGED <<vecVars, allocVars, genVars, nameVars, wideVars>>

\* a * 2 with any i64 in the place of 2, and 2 * a beside it
DisplacementMul ==
    /\ op_out = <<>>
    /\ \E scalar \in Operands, overflow_checks \in BOOLEAN :
           op_out' = [op |-> "Displacement * i64", lhs |-> d, rhs |-> scalar,
                      out |-> Displacement_mul(d, scalar, overflow_checks),
                      swapped |-> i64_mul_Displacement(scalar, d, overflow_checks)]
    /\ UNCHANGED <<vecVars, allocVars, genVars, nameVars, wideVars>>

\* a / 2 with any i64 in the place of 2
DisplacementDiv ==
    /\ op_out = <<>>
    /\ \E scalar \in Operands :
           op_out' = [op |-> "Displacement / i64", lhs |-> d, rhs |-> scalar,
                      out |-> Displacement_div(d, scalar)]
    /\ UNCHANGED <<vecVars, allocVars, genVars, nameVars, wideVars>>

\* a == b
DisplacementEq ==
    /\ op_out = <<>>
    /\ \E b \in Points :
           op_out' = [op |-> "Displacement == Displacement", lhs |-> d, rhs |-> b,
                      out |-> derived_eq(d, b)]
    /\ UNCHANGED <<vecVars, allocVars, genVars, nameVars, wideVars>>

NextOps ==
    \/ PositionAdd
    \/ PositionSub
    \/ PositionAddSub
    \/ DisplacementAddPosition
    \/ DisplacementAdd
    \/ DisplacementSub
    \/ DisplacementNeg
    \/ DisplacementMul
    \/ DisplacementDiv
    \/ DisplacementEq

SpecOps == InitOps /\ [][NextOps]_vars

(***************************************************************************)
(* Specification of Displacement::norm on machine integers: each initial   *)
(* state holds one displacement of the full coordinate range; the build    *)
(* profile decides whether overflow is checked                             *)
(***************************************************************************)
InitWide ==
    /\ d \in { Displacement(q, r) : q \in I64Min .. I64Max, r \in I64Min .. I64Max }
    /\ rect = <<>>
    /\ hex = <<>>
    /\ norm_out = <<>>
    /\ neg_out = <<>>
    /\ AllocIdle
    /\ GenIdle
    /\ NameIdle
    /\ WideIdle
    /\ OpsIdle

TakeNormWide ==
    /\ norm_ret = <<>>
    /\ \E overflow_checks \in BOOLEAN : norm_ret' = norm(d, overflow_checks)
    /\ UNCHANGED <<vecVars, allocVars, genVars, nameVars, opsVars>>

NextWide == TakeNormWide

SpecWide == InitWide /\ [][NextWide]_vars

(***************************************************************************)
(* Specification of the allocator: the host calls next() again and again   *)
(***************************************************************************)
InitAlloc ==
    /\ VecIdle
    /\ AllocIdle
    /\ GenIdle
    /\ NameIdle
    /\ WideIdle
    /\ OpsIdle

CallNext ==
    /\ calls < IdLimit - 1 + MaxNoneCalls
    /\ LET got == EntityIdGenerator_next(next_id)
       IN  /\ next_id' = got.next_id
           /\ ret' = [some |-> got.some, id |-> got.id]
           /\ issued' = IF got.some THEN issued + 1 ELSE issued
    /\ calls' = calls + 1
    /\ UNCHANGED <<vecVars, genVars, nameVars, wideVars, opsVars>>

NextAlloc == CallNext

SpecAlloc == InitAlloc /\ [][NextAlloc]_vars

(***************************************************************************)
(* Specification of the name generator: the host draws name after name     *)
(* from one AsteroidNameGenerator, through a full period and beyond        *)
(***************************************************************************)
InitNames ==
    /\ VecIdle
    /\ AllocIdle
    /\ GenIdle
    /\ NameIdle
    /\ WideIdle
    /\ OpsIdle

NextName ==
    /\ named < NameMod + MaxNamesBeyondPeriod
    /\ LET got == AsteroidNameGenerator_next(last)
       IN  /\ last' = got.last
           /\ name_out' = got.name
    /\ named' = named + 1
    /\ UNCHANGED <<pc, seed, num_players, rng, draws, major_bodies, minor_bodies,
                   stacks, jupiter_angle, terra_position, mars_position, loop, game,
                   hasher, start_id, first>>
    /\ UNCHANGED <<vecVars, allocVars, wideVars, opsVars>>

NextNames == NextName

SpecNames == InitNames /\ [][NextNames]_vars

(***************************************************************************)
(* Specification of the generator: the host calls GameState::new once,     *)
(* with any seed, any player count and an allocator at any of the cursors  *)
(***************************************************************************)
Seeds == 0 .. (NumSeeds - 1)
PlayerCounts == (0 .. MaxPlayersTried) \cup {U8Max}
\* a fresh allocator, one used before, one about to run out and one that has run out
StartCursors ==
    {EntityIdGenerator_new, EntityIdGenerator_new + IdsAlreadyIssued,
     IdLimit - NearlyOut, 0}

Init ==
    /\ VecIdle
    /\ next_id \in StartCursors
    /\ ret = NoRet
    /\ calls = 0
    /\ issued = 0
    /\ pc = "call"
    /\ seed \in Seeds
    /\ num_players \in PlayerCounts
    /\ NoFrame
    /\ game = <<>>
    /\ hasher = 0
    /\ start_id = next_id
    /\ first = <<>>
    /\ NameIdle
    /\ WideIdle
    /\ OpsIdle

Next ==
    \/ Begin
    \/ PlaceSol
    \/ PlaceMercury
    \/ PlaceVenus
    \/ PlaceTerraLuna
    \/ PlaceMars
    \/ PlaceJupiter
    \/ PlacePhobosDeimos
    \/ BeltColumn
    \/ TrojanBand
    \/ GreekBand
    \/ HildaBand
    \/ SelectElements
    \/ PlaceStation
    \/ Return

Spec == Init /\ [][Next]_vars

(***************************************************************************)
(* Specification of two generation runs: after GameState::new has          *)
(* returned, the host keeps the result and calls it once more with the     *)
(* same seed, the same player count and an allocator at the same cursor    *)
(***************************************************************************)
CallAgain ==
    /\ pc = "done"
    /\ first = <<>>
    /\ first' = [game |-> game, next_id |-> next_id]
    /\ pc' = "call"
    /\ game' = <<>>
    /\ next_id' = start_id
    /\ UNCHANGED <<rng, draws, major_bodies, minor_bodies, stacks, jupiter_angle,
                   terra_position, mars_position, last, loop>>
    /\ UNCHANGED <<seed, num_players, hasher, start_id>>
    /\ UNCHANGED <<vecVars, ret, calls, issued, nameVars, wideVars, opsVars>>

NextTwice == Next \/ CallAgain

SpecTwice == Init /\ [][NextTwice]_vars

(***************************************************************************)
(* Specification of two generation runs that differ in the player count:   *)
(* after GameState::new has returned, the host keeps the result and calls  *)
(* it once more with the same seed, an allocator at the same cursor and    *)
(* the next player count, 6 being followed by 2.  Every pair of player     *)
(* counts is linked by a chain of such pairs of runs                       *)
(***************************************************************************)
NextPlayerCount(n) == IF n = MaxPlayers THEN MinPlayers ELSE n + 1

CallWithOtherPlayers ==
    /\ pc = "done"
    /\ first = <<>>
    /\ first' = [game |-> game, next_id |-> next_id, num_players |-> num_players]
    /\ pc' = "call"
    /\ game' = <<>>
    /\ next_id' = start_id
    /\ num_players' = NextPlayerCount(num_players)
    /\ UNCHANGED <<rng, draws, major_bodies, minor_bodies, stacks, jupiter_angle,
                   terra_position, mars_position, last, loop>>
    /\ UNCHANGED <<seed, hasher, start_id>>
    /\ UNCHANGED <<vecVars, ret, calls, issued, nameVars, wideVars, opsVars>>

NextPlayers == Next \/ CallWithOtherPlayers

SpecPlayers == Init /\ [][NextPlayers]_vars

(***************************************************************************)
(* Properties                                                              *)
(***************************************************************************)

\* C1: converting an integer lattice point (q, r) to Cartesian coordinates with
\* hex_to_rect and back with rect_to_hex returns exactly (q, r).
C1_RoundTrip == hex # <<>> => hex = <<d.q, d.r>>

C3_IdSequence ==
    /\ (calls >= 1 /\ calls <= IdLimit - 1) =>
            (ret.some /\ ret.id = calls /\ issued = calls)
    /\ ret.some => ret.id # 0

C3_ThirdCall == calls = 3 /\ ret = [some |-> TRUE, id |-> 3]

\* C4: once next() has returned the largest id 2^w - 1, every later call returns
\* None and leaves the allocator as it is; a fresh allocator issues exactly
\* 2^w - 1 ids before that.
C4_ExhaustionIsTerminal ==
    /\ calls = IdLimit - 1 => (ret.some /\ ret.id = IdLimit - 1)
    /\ calls >= IdLimit => (~ret.some /\ next_id = 0 /\ issued = IdLimit - 1)

C4_CalledAfterExhaustion == calls = IdLimit + 1 /\ ~ret.some /\ issued = IdLimit - 1

\* C5: GameState::new fails for every player count outside 2..6 before it takes
\* an id from the allocator or creates an entity; for every count in 2..6 with a
\* fresh allocator it never panics and what it returns is a snapshot.
C5_PlayerCountBound ==
    /\ num_players \notin 2 .. 6 =>
            /\ pc \in {"call", "panicked"}
            /\ next_id = start_id
            /\ game = <<>>
            /\ NoFrame
    /\ (num_players \in 2 .. 6 /\ start_id = 1) =>
            /\ pc # "panicked"
            /\ pc = "done" =>
                    /\ game # <<>>
                    /\ Cardinality(DOMAIN game.stacks) = num_players

C5_RejectedCount ==
    pc = "panicked" /\ num_players = 7 /\ start_id = 1 /\ next_id = 1

\* C6: in every world GameState::new returns, any two distinct minor bodies
\* (Phobos, Deimos, main-belt asteroids, Trojans, Greeks, Hildas) are in
\* different lattice cells.
C6_NoDuplicateMinorPositions ==
    pc = "done" =>
        Cardinality({ game.minor_bodies[k].position : k \in DOMAIN game.minor_bodies })
            = Cardinality(DOMAIN game.minor_bodies)

\* C7: every minor body has ice_abundance and ore_abundance in 0..6, not both 0;
\* Phobos and Deimos have exactly ice = 1 and ore = 0.
MinorBodyResources(body) ==
    /\ body.ice_abundance \in 0 .. 6
    /\ body.ore_abundance \in 0 .. 6
    /\ body.ice_abundance > 0 \/ body.ore_abundance > 0
    /\ body.name \in {"Phobos", "Deimos"} =>
            (body.ice_abundance = 1 /\ body.ore_abundance = 0)
C7_ResourceNonDegeneracy ==
    /\ \A k \in DOMAIN minor_bodies : MinorBodyResources(minor_bodies[k])
    /\ pc = "done" =>
            \A k \in DOMAIN game.minor_bodies : MinorBodyResources(game.minor_bodies[k])

\* a returned world with an asteroid that has no ice; candidates with neither ice
\* nor ore were sampled on the way (fewer bodies than candidates)
C7_WorldWithIcelessAsteroid ==
    /\ pc = "done"
    /\ \E k \in DOMAIN game.minor_bodies :
            /\ game.minor_bodies[k].ice_abundance = 0
            /\ game.minor_bodies[k].ore_abundance > 0
    /\ \E k \in DOMAIN game.minor_bodies : game.minor_bodies[k].name = "Phobos"

\* C8: for n players in 2..6 the snapshot holds exactly n stacks; the stack of
\* player i is owned by i, carries the i-th station name, is at Terra's position
\* plus the i-th home offset with the paired velocity, and holds exactly one
\* factory, one habitat owned by i, two fuel tanks with 20 fuel and three cargo
\* holds with 20 materials and nothing else, all undamaged, and no engines, guns,
\* launch clamps, miners or armour plates.
TerraOf(g) ==
    g.major_bodies[CHOOSE k \in DOMAIN g.major_bodies : g.major_bodies[k].name = "Terra"]
StartingStack(s, i, n, g) ==
    /\ s.owner = i
    /\ s.name = STARTING_STATION_NAMES[i + 1]
    /\ s.position = [q |-> TerraOf(g).position.q
                            + starting_station_orbital_elements(n)[i + 1][1].q,
                     r |-> TerraOf(g).position.r
                            + starting_station_orbital_elements(n)[i + 1][1].r]
    /\ s.velocity = starting_station_orbital_elements(n)[i + 1][2]
    /\ Cardinality(DOMAIN s.factories) = 1
    /\ \A k \in DOMAIN s.factories : s.factories[k] = [id |-> k, damaged |-> FALSE]
    /\ Cardinality(DOMAIN s.habitats) = 1
    /\ \A k \in DOMAIN s.habitats :
            s.habitats[k] = [id |-> k, damaged |-> FALSE, owner |-> i]
    /\ Cardinality(DOMAIN s.fuel_tanks) = 2
    /\ \A k \in DOMAIN s.fuel_tanks :
            s.fuel_tanks[k] = [id |-> k, damaged |-> FALSE, fuel |-> 20]
    /\ Cardinality(DOMAIN s.cargo_holds) = 3
    /\ \A k \in DOMAIN s.cargo_holds :
            s.cargo_holds[k] =
                [id |-> k, damaged |-> FALSE,
                 inventory |-> [ice |-> 0, ore |-> 0, materials |-> 20, warheads |-> 0]]
    /\ s.engines = <<>>
    /\ s.guns = <<>>
    /\ s.launch_clamps = <<>>
    /\ s.miners = <<>>
    /\ s.armour_plates = <<>>
C8_StartingStacks ==
    pc = "done" =>
        /\ Cardinality(DOMAIN game.stacks) = num_players
        /\ \A k \in DOMAIN game.stacks : game.stacks[k].id = k
        /\ \A i \in 0 .. (num_players - 1) :
                \E k \in DOMAIN game.stacks :
                    StartingStack(game.stacks[k], i, num_players, game)

C8_SixStations == pc = "done" /\ num_players = 6 /\ Cardinality(DOMAIN game.stacks) = 6

\* C9: for every player count 2..6 the set of home offsets of the starting
\* stations is mapped onto itself by a rotation of the hex lattice about the home
\* world by 60, 120, 180, 240 or 300 degrees ((q, r) -> (-r, q + r) applied one to
\* five times), and all stations of a game are at the same hex distance from the
\* home world.
Rot60(v) == [q |-> -v.r, r |-> v.q + v.r]
RECURSIVE Rot(_, _)
Rot(v, times) == IF times = 0 THEN v ELSE Rot(Rot60(v), times - 1)
HomeOffsets(g) ==
    { [q |-> g.stacks[k].position.q - TerraOf(g).position.q,
       r |-> g.stacks[k].position.r - TerraOf(g).position.r] : k \in DOMAIN g.stacks }
C9_StartingSymmetry ==
    pc = "done" =>
        /\ \E times \in 1 .. 5 :
                { Rot(v, times) : v \in HomeOffsets(game) } = HomeOffsets(game)
        /\ \A v, w \in HomeOffsets(game) :
                (Abs(v.q) + Abs(v.r) + Abs(v.q + v.r)) = (Abs(w.q) + Abs(w.r) + Abs(w.q + w.r))

\* C10: Displacement::norm is the hex-grid distance: norm(d) = (|q| + |r| + |q + r|) / 2
\* with the division exact, equal to the least number of steps between adjacent
\* hexes from the origin to d; norm((0, 0)) = 0, norm(d) >= 0, norm(d) = norm(-d).
C10_NormIsHexDistance ==
    /\ norm_out # <<>> =>
            /\ 2 * norm_out[1] = Abs(d.q) + Abs(d.r) + Abs(d.q + d.r)
            /\ norm_out[1] = StepDistance(d)
            /\ norm_out[1] >= 0
            /\ (d.q = 0 /\ d.r = 0) => norm_out[1] = 0
    /\ (norm_out # <<>> /\ neg_out # <<>>) => neg_out = norm_out

C10_NormOfTwoMinusFive ==
    d = [q |-> 2, r |-> -5] /\ norm_out = <<5>> /\ neg_out = <<5>>

\* C11: the belt loop visits exactly the cells of hex distance <= 36, each once
\* (column q in -36..36, rows max(-36, -q-36)..min(36, -q+36)); a main-belt body
\* is emitted at a cell if and only if the cell's hex distance is in 29..36 and
\* the two abundances sampled for it are not both zero; so every main-belt
\* asteroid is at hex distance 29..36 and no cell gets two of them.
\* the state of the random stream n samples after state
RECURSIVE RngAfter(_, _)
RngAfter(state, n) ==
    IF n = 0 THEN state
    ELSE IF n = 1 THEN rng_step(state)
    ELSE LET half == RngAfter(state, n \div 2)
         IN  IF half \in 0 .. (RngMod - 1) THEN RngAfter(half, n - (n \div 2))
             ELSE half
Annulus(q) ==
    { r \in (-2 * BeltOuter) .. (2 * BeltOuter) :
        /\ Norm(Displacement(q, r)) >= BeltInner
        /\ Norm(Displacement(q, r)) <= BeltOuter }
CellIndex(q, r) == Cardinality({ x \in Annulus(q) : x < r })
NewMinorBodies ==
    { minor_bodies'[k] : k \in (DOMAIN minor_bodies') \ (DOMAIN minor_bodies) }
BeltColumnAsSpecified ==
    /\ loop \in (-BeltOuter) .. BeltOuter
    /\ Max(-BeltOuter, -loop - BeltOuter) .. Min(BeltOuter, -loop + BeltOuter)
            = { r \in (-2 * BeltOuter) .. (2 * BeltOuter) :
                    Norm(Displacement(loop, r)) <= BeltOuter }
    /\ pc' = "belt" => loop' = loop + 1
    /\ pc' = "trojans" => loop = BeltOuter
    /\ draws' = draws + 2 * Cardinality(Annulus(loop))
    /\ \A body \in NewMinorBodies :
            body.position.q = loop /\ body.position.r \in Annulus(loop)
    /\ \A r \in Annulus(loop) :
            LET ice == resource_sample(RngAfter(rng, 2 * CellIndex(loop, r) + 1))
                ore == resource_sample(RngAfter(rng, 2 * CellIndex(loop, r) + 2))
                here == { body \in NewMinorBodies : body.position = Position(loop, r) }
            IN  /\ Cardinality(here) = (IF ice = 0 /\ ore = 0 THEN 0 ELSE 1)
                /\ \A body \in here :
                        body.ice_abundance = ice /\ body.ore_abundance = ore
C11_MainBeltEnumeration ==
    [][(pc = "belt" /\ pc' # "panicked") => BeltColumnAsSpecified]_vars

\* the belt loop has run to its end: all 1560 cells of the annulus were sampled
\* and asteroids stand on its inner and on its outer rim
C11_BeltDone ==
    /\ pc = "trojans"
    /\ loop = TrojanNear
    /\ draws = 4 + 2 * 1560
    /\ \E k \in DOMAIN minor_bodies : Norm(minor_bodies[k].position) = BeltInner
    /\ \E k \in DOMAIN minor_bodies :
            /\ Norm(minor_bodies[k].position) = BeltOuter
            /\ minor_bodies[k].name \notin {"Phobos", "Deimos"}

\* C12: the k-th name an AsteroidNameGenerator produces (k >= 1) is the decimal
\* string of 10000 + (13121 * k mod 60000), a 5-digit number in 10000..69999; the
\* sequence has period exactly 60000 (it is back at its start after 60000 names
\* and not before), so the first 60000 names are pairwise distinct.
C12_NameSequence ==
    /\ named >= 1 =>
            /\ name_out = ToString(10000 + ((13121 * named) % 60000))
            /\ last + 10000 \in 10000 .. 69999
            /\ Len(name_out) = 5
    /\ last = 0 <=> named % 60000 = 0

\* the generator has produced a full period of names and is back at its start
C12_FullPeriod == named = 60000 /\ last = 0 /\ name_out = "10000"

\* C13: when the allocator runs out of ids before or while GameState::new or a
\* constructor needs one, the call returns a failure value to its caller and
\* does not crash: a call with a player count in 2..6 never ends in a panic, and
\* no entity it returns has the id 0 or an id another entity has.
SnapshotIds(g) ==
    (DOMAIN g.major_bodies) \cup (DOMAIN g.minor_bodies) \cup (DOMAIN g.stacks)
C13_ExhaustionIsTypedFailure ==
    /\ num_players \in MinPlayers .. MaxPlayers => pc # "panicked"
    /\ pc = "done" =>
            /\ 0 \notin SnapshotIds(game)
            /\ Cardinality(SnapshotIds(game))
                    = Cardinality(DOMAIN game.major_bodies)
                        + Cardinality(DOMAIN game.minor_bodies)
                        + Cardinality(DOMAIN game.stacks)

\* C14: Terra is at the same lattice cell for every seed and player count, the
\* axial conversion of Cartesian (16, 0), and that cell is at hex distance 16
\* from Sol at (0, 0); Luna is at Terra + (3, 2).
BodyNamed(bodies, called) ==
    bodies[CHOOSE k \in DOMAIN bodies : bodies[k].name = called]
C14_TerraAtRadiusSixteen ==
    pc = "done" =>
        LET sol == BodyNamed(game.major_bodies, "Sol").position
            terra == BodyNamed(game.major_bodies, "Terra").position
            luna == BodyNamed(game.major_bodies, "Luna").position
        IN  /\ sol = Position(0, 0)
            /\ terra = PositionFrom(16 * Scale, 0)
            /\ Norm(Displacement(terra.q - sol.q, terra.r - sol.r)) = 16
            /\ luna = Add(terra, Displacement(3, 2))

\* C15: Displacement::norm returns a result for every displacement whose q and r
\* are representable signed w-bit integers: on no input does the computation of
\* |q| + |r| + |q + r| overflow or fail, so the call never panics and what it
\* returns is the hex distance.
C15_NormIsTotal ==
    norm_ret # <<>> =>
        /\ ~norm_ret.panicked
        /\ 2 * norm_ret.value = Abs(d.q) + Abs(d.r) + Abs(d.q + d.r)

\* C16: for every seed and every player count 2..6 the returned snapshot has an
\* empty warhead collection and phase Economic, and holds exactly the 10 major
\* bodies Sol, Mercury, Venus, Terra, Luna, Mars, Jupiter, Europa, Callisto and
\* Ganymede, with Sol at axial (0, 0).
C16_WorldAssembly ==
    pc = "done" =>
        /\ num_players \in 2 .. 6
        /\ game.warheads = <<>>
        /\ game.phase = "Economic"
        /\ Cardinality(DOMAIN game.major_bodies) = 10
        /\ { game.major_bodies[k].name : k \in DOMAIN game.major_bodies }
                = {"Sol", "Mercury", "Venus", "Terra", "Luna", "Mars", "Jupiter",
                   "Europa", "Callisto", "Ganymede"}
        /\ \A k \in DOMAIN game.major_bodies : game.major_bodies[k].id = k
        /\ BodyNamed(game.major_bodies, "Sol").position = Position(0, 0)

\* a world returned for the second seed and five players, Jupiter's moons around
\* Jupiter
C16_WorldReturned ==
    /\ pc = "done"
    /\ seed = 1
    /\ num_players = 5
    /\ BodyNamed(game.major_bodies, "Europa").position
            = Add(BodyNamed(game.major_bodies, "Jupiter").position, Displacement(0, 3))

\* C17: from an allocator at cursor c, far from exhaustion, every major body,
\* minor body, stack and component takes exactly one id, in the order Sol = c,
\* Mercury, Venus, Terra, Luna, Mars, Jupiter, Europa, Callisto, Ganymede = c + 9,
\* Phobos = c + 10, Deimos = c + 11, then the asteroids as emitted, then per
\* player the stack followed by factory, habitat, two fuel tanks and three cargo
\* holds; all ids of the snapshot are pairwise distinct and the allocator is left
\* at c + 10 + (number of minor bodies) + 8 * num_players.
CreationOrder ==
    <<"Sol", "Mercury", "Venus", "Terra", "Luna", "Mars", "Jupiter", "Europa",
      "Callisto", "Ganymede", "Phobos", "Deimos">>
StackIds(s) ==
    {s.id} \cup (DOMAIN s.factories) \cup (DOMAIN s.habitats)
        \cup (DOMAIN s.fuel_tanks) \cup (DOMAIN s.cargo_holds)
IdsAccounted(majors, minors, stks, c, cursor) ==
    LET m == Cardinality(DOMAIN minors)
    IN  /\ \A i \in 1 .. 10 :
                c + i - 1 \in DOMAIN majors =>
                    /\ majors[c + i - 1].name = CreationOrder[i]
                    /\ majors[c + i - 1].id = c + i - 1
        /\ \A i \in 11 .. 12 :
                c + i - 1 \in DOMAIN minors => minors[c + i - 1].name = CreationOrder[i]
        /\ DOMAIN majors = { k \in c .. (c + 9) : k - c < Cardinality(DOMAIN majors) }
        /\ DOMAIN minors = (c + 10) .. (c + 9 + m)
        /\ \A k \in DOMAIN minors : minors[k].id = k
        /\ \A k \in DOMAIN stks :
                LET s == stks[k]
                    base == c + 10 + m + 8 * s.owner
                IN  /\ s.id = k
                    /\ k = base
                    /\ DOMAIN s.factories = {base + 1}
                    /\ DOMAIN s.habitats = {base + 2}
                    /\ DOMAIN s.fuel_tanks = {base + 3, base + 4}
                    /\ DOMAIN s.cargo_holds = {base + 5, base + 6, base + 7}
        /\ Cardinality((DOMAIN majors) \cup (DOMAIN minors)
                        \cup UNION { StackIds(stks[k]) : k \in DOMAIN stks })
                = Cardinality(DOMAIN majors) + m + 8 * Cardinality(DOMAIN stks)
        /\ cursor = c + Cardinality(DOMAIN majors) + m + 8 * Cardinality(DOMAIN stks)
\* the allocator can still issue every id a run may take: 10 major bodies, Phobos
\* and Deimos, 1560 + 2 * 155 + 186 asteroid candidates, 8 ids per player
FarFromExhaustion ==
    /\ start_id # 0
    /\ start_id + 10 + 2 + (1560 + 2 * 155 + 186) + 8 * MaxPlayers < IdLimit
C17_IdAccounting ==
    /\ (FarFromExhaustion /\ pc \notin {"idle", "call", "done", "panicked"}) =>
            IdsAccounted(major_bodies, minor_bodies, stacks, start_id, next_id)
    /\ (FarFromExhaustion /\ pc = "done") =>
            /\ IdsAccounted(game.major_bodies, game.minor_bodies, game.stacks,
                            start_id, next_id)
            /\ next_id = start_id + 10 + Cardinality(DOMAIN game.minor_bodies)
                            + 8 * num_players

\* a world returned to a host whose allocator had issued ids before the call
C17_UsedAllocator ==
    /\ pc = "done"
    /\ start_id = EntityIdGenerator_new + IdsAlreadyIssued
    /\ num_players = 3
    /\ BodyNamed(game.minor_bodies, "Deimos").id = start_id + 11
    /\ Cardinality(DOMAIN game.minor_bodies) > 1000

\* C18: the random stream is consumed in a fixed order and number, whatever the
\* sampled values and the player count: 4 angle draws, for Mercury, Venus, Mars
\* and Jupiter in this order (none for Sol, Terra, Luna or the moons); then an
\* ice draw and an ore draw for each of the 1560 cells of the annulus 29..36 in
\* (q, r) order; then an ice and an ore draw for each of the 155 Trojan, 155
\* Greek and 186 Hilda candidates in (distance, step) order: 4116 draws in all.
\* A skipped candidate has still consumed its two draws, and generation always
\* terminates (every step moves the call forward through a bounded sequence of
\* positions).
Stream(n) == RngAfter(from_seed(seed), n)
PcOrder ==
    <<"call", "sol", "mercury", "venus", "terra", "mars", "jupiter", "phobos", "belt",
      "trojans", "greeks", "hildas", "elements", "stations", "done">>
Progress(at, index) ==
    IF at = "panicked" THEN 100 * (Len(PcOrder) + 1)
    ELSE 100 * (CHOOSE i \in 1 .. Len(PcOrder) : PcOrder[i] = at)
            + (IF at \in {"belt", "trojans", "greeks", "hildas", "stations"}
               THEN index + BeltOuter ELSE 0)
ClusterOffset(at) ==
    IF at = "trojans" THEN PiThird ELSE IF at = "greeks" THEN -PiThird ELSE Pi
DrawsTaken(at) ==
    IF at \in {"mercury", "venus", "mars", "jupiter"} THEN 1
    ELSE IF at = "belt" THEN 2 * Cardinality(Annulus(loop))
    ELSE IF at \in {"trojans", "greeks", "hildas"} THEN 2 * (2 * StepMax + 1)
    ELSE 0
StreamAsSpecified ==
    /\ pc \in { PcOrder[i] : i \in 1 .. Len(PcOrder) }
    /\ Progress(pc', loop') > Progress(pc, loop)
    /\ Progress(pc', loop') <= 100 * (Len(PcOrder) + 1)
    /\ pc' \notin {"done", "panicked"} =>
            /\ draws' = draws + DrawsTaken(pc)
            /\ rng' = Stream(draws')
            /\ \A k \in DOMAIN major_bodies' :
                    LET body == major_bodies'[k]
                    IN  /\ body.name = "Mercury" =>
                            body.position = Orbit(MercuryRadius, angle_sample(Stream(1)))
                        /\ body.name = "Venus" =>
                            body.position = Orbit(VenusRadius, angle_sample(Stream(2)))
                        /\ body.name = "Mars" =>
                            body.position = Orbit(MarsRadius, angle_sample(Stream(3)))
                        /\ body.name = "Jupiter" =>
                            body.position = Orbit(JupiterRadius, angle_sample(Stream(4)))
            /\ pc \in {"trojans", "greeks", "hildas"} =>
                    \A body \in NewMinorBodies :
                        \E step \in (-StepMax) .. StepMax :
                            /\ body.position
                                = Orbit(loop, jupiter_angle + step + ClusterOffset(pc))
                            /\ body.ice_abundance
                                = resource_sample(RngAfter(rng, 2 * (step + StepMax) + 1))
                            /\ body.ore_abundance
                                = resource_sample(RngAfter(rng, 2 * (step + StepMax) + 2))
            /\ pc' = "trojans" /\ pc = "belt" => draws' = 4 + 2 * 1560
            /\ pc' = "greeks" /\ pc = "trojans" => draws' = 4 + 2 * (1560 + 155)
            /\ pc' = "hildas" /\ pc = "greeks" => draws' = 4 + 2 * (1560 + 155 + 155)
            /\ pc' = "elements" => draws' = 4116
C18_StreamConsumption == [][StreamAsSpecified]_vars

\* all samples are taken and some candidates were skipped on the way: the world
\* has fewer asteroids than the 2056 candidates
C18_AllDrawsTaken ==
    /\ pc = "stations"
    /\ draws = 4116
    /\ Cardinality(DOMAIN minor_bodies) < 2 + 2056
    /\ num_players = 6

\* C19: a Trojan, Greek or Hilda candidate is emitted if and only if its sampled
\* abundances are not both zero and no minor body placed earlier in the run
\* (Phobos, Deimos, a main-belt asteroid, an earlier cluster body) is at its
\* position; a skipped candidate is not retried and takes neither a name nor an
\* id, so the i-th asteroid emitted overall carries the i-th name of the name
\* sequence and the id (Deimos id + i).
\*
\* The candidates of one distance are numbered 0 .. 30 by step.  An earlier
\* candidate of the same distance occupies the cell of a later one exactly when
\* its abundances are not both zero: it was then emitted there, or a body was
\* there already.
Candidate(at, distance, jupiter, from, j) ==
    [position |-> Orbit(distance, jupiter + (j - StepMax) + ClusterOffset(at)),
     ice_abundance |-> resource_sample(RngAfter(from, 2 * j + 1)),
     ore_abundance |-> resource_sample(RngAfter(from, 2 * j + 2))]
Barren(c) == c.ice_abundance = 0 /\ c.ore_abundance = 0
ClusterBandAsSpecified ==
    LET cand == [j \in 0 .. (2 * StepMax) |->
                    Candidate(pc, loop, jupiter_angle, rng, j)]
        placed == { minor_bodies[k].position : k \in DOMAIN minor_bodies }
        emitted == { j \in DOMAIN cand :
                        /\ ~Barren(cand[j])
                        /\ cand[j].position \notin placed
                        /\ \A i \in 0 .. (j - 1) :
                                cand[i].position = cand[j].position => Barren(cand[i]) }
        rank(j) == Cardinality({ i \in emitted : i < j })
    IN  /\ draws' = draws + 2 * (2 * StepMax + 1)
        /\ DOMAIN minor_bodies' = (DOMAIN minor_bodies)
                \cup (next_id .. (next_id + Cardinality(emitted) - 1))
        /\ \A k \in DOMAIN minor_bodies : minor_bodies'[k] = minor_bodies[k]
        /\ \A j \in emitted :
                LET body == minor_bodies'[next_id + rank(j)]
                IN  /\ body.position = cand[j].position
                    /\ body.ice_abundance = cand[j].ice_abundance
                    /\ body.ore_abundance = cand[j].ore_abundance
        /\ next_id' = next_id + Cardinality(emitted)
        /\ last' = (last + NameStep * Cardinality(emitted)) % NameMod
AsteroidsNumbered(minors) ==
    \A k \in DOMAIN minors :
        LET i == k - (start_id + 11)
        IN  i >= 1 => /\ minors[k].id = start_id + 11 + i
                      /\ minors[k].name = ToString(10000 + ((13121 * i) % 60000))
C19_ClusterFilters ==
    [][(FarFromExhaustion /\ pc' # "panicked") =>
            /\ pc \in {"trojans", "greeks", "hildas"} => ClusterBandAsSpecified
            /\ AsteroidsNumbered(minor_bodies)]_vars

\* a distance of a cluster has just been gone through in which a candidate found
\* its cell taken by an earlier candidate of the same distance, and one in which
\* a candidate had neither ice nor ore
C19_CandidateSkipped ==
    /\ pc \in {"trojans", "greeks", "hildas"}
    /\ loop > (IF pc = "hildas" THEN HildaNear ELSE TrojanNear)
    /\ LET from == RngAfter(from_seed(seed), draws - 2 * (2 * StepMax + 1))
           cand == [j \in 0 .. (2 * StepMax) |->
                        Candidate(pc, loop - 1, jupiter_angle, from, j)]
       IN  /\ \E j \in DOMAIN cand : Barren(cand[j])
           /\ \E i, j \in DOMAIN cand :
                    /\ i < j
                    /\ cand[i].position = cand[j].position
                    /\ ~Barren(cand[i])
                    /\ ~Barren(cand[j])
                    /\ Cardinality({ k \in DOMAIN minor_bodies :
                            minor_bodies[k].position = cand[j].position }) = 1

\* C20: cube rounding returns the nearest lattice point.  With the fractional
\* cube coordinates (q', r', s') rect_to_hex computes for a Cartesian input, the
\* returned (q, r) and s = -q - r sum to zero, agree with the independently
\* rounded coordinates on every axis but the one with the largest rounding
\* residual (q is replaced only when its residual is strictly larger than both
\* others, otherwise r when its residual exceeds that of s, otherwise s), and no
\* other lattice point is strictly closer to (q', r', s') in cube distance.
\*
\* Fractions are numerators over FracDen.
NearestInteger(n) ==
    LET near == RoundTowardZero(n, FracDen)
        around == (near - 1) .. (near + 1)
    IN  CHOOSE k \in around :
            \A j \in around :
                \/ Abs(n - k * FracDen) < Abs(n - j * FracDen)
                \/ (Abs(n - k * FracDen) = Abs(n - j * FracDen) /\ Abs(k) >= Abs(j))
CubeDistance(qf, rf, sf, q, r) ==
    LET dq == Abs(qf - q * FracDen)
        dr == Abs(rf - r * FracDen)
        ds == Abs(sf - (-q - r) * FracDen)
    IN  IF dq >= dr /\ dq >= ds THEN dq ELSE IF dr >= ds THEN dr ELSE ds
C20_CubeRounding ==
    hex # <<>> =>
        LET qf == q_frac(rect[1], rect[2])
            rf == r_frac(rect[1], rect[2])
            sf == s_frac(rect[1], rect[2])
            q == hex[1]
            r == hex[2]
            s == -q - r
            dq == Abs(qf - NearestInteger(qf) * FracDen)
            dr == Abs(rf - NearestInteger(rf) * FracDen)
            ds == Abs(sf - NearestInteger(sf) * FracDen)
        IN  /\ q + r + s = 0
            /\ qf + rf + sf = 0
            /\ IF dq > dr /\ dq > ds
               THEN r = NearestInteger(rf) /\ s = NearestInteger(sf)
               ELSE IF dr > ds
               THEN q = NearestInteger(qf) /\ s = NearestInteger(sf)
               ELSE q = NearestInteger(qf) /\ r = NearestInteger(rf)
            /\ \A a \in (q - 2) .. (q + 2) : \A b \in (r - 2) .. (r + 2) :
                    CubeDistance(qf, rf, sf, a, b) >= CubeDistance(qf, rf, sf, q, r)

\* a point whose q coordinate has the largest residual and is replaced: the three
\* independently rounded coordinates do not sum to zero
C20_RoundedSumNotZero ==
    /\ hex # <<>>
    /\ LET qf == q_frac(rect[1], rect[2])
           rf == r_frac(rect[1], rect[2])
           sf == s_frac(rect[1], rect[2])
       IN  /\ NearestInteger(qf) + NearestInteger(rf) + NearestInteger(sf) # 0
           /\ hex[1] # NearestInteger(qf)
           /\ hex[2] = NearestInteger(rf)

\* C21: the operators of Position and Displacement act component-wise on q and r.
\* Whenever the exact results are representable, p + d, p - d, a + b and a - b
\* return the sums and differences of the components, -d the negated components
\* and d * k the scaled components, without failing; (p + d) - d, when it returns,
\* is p; d + p ends as p + d does and k * d as d * k does; d / k, for k # 0 and
\* short of i64::MIN / -1, returns per component the quotient truncated toward
\* zero; == holds exactly when both components are equal.
Representable(x) == I64Min <= x /\ x <= I64Max
Returns(done, q, r) ==
    (Representable(q) /\ Representable(r)) =>
        (~done.panicked /\ done.value.q = q /\ done.value.r = r)
TruncatedQuotient(a, k, quotient) ==
    LET remainder == a - quotient * k
    IN  /\ Abs(remainder) < Abs(k)
        /\ remainder # 0 => ((remainder < 0) = (a < 0))
C21_ComponentWise ==
    op_out # <<>> =>
        LET a == op_out.lhs
            b == op_out.rhs
            done == op_out.out
        IN  /\ op_out.op \in {"Position + Displacement", "Displacement + Position",
                              "Displacement + Displacement"}
                   => Returns(done, a.q + b.q, a.r + b.r)
            /\ op_out.op \in {"Position - Displacement", "Displacement - Displacement"}
                   => Returns(done, a.q - b.q, a.r - b.r)
            /\ op_out.op = "(Position + Displacement) - Displacement"
                   => (~done.panicked => done.value = a)
            /\ op_out.op \in {"Displacement + Position", "Displacement * i64"}
                   => done = op_out.swapped
            /\ op_out.op = "-Displacement" => Returns(done, -a.q, -a.r)
            /\ op_out.op = "Displacement * i64" => Returns(done, a.q * b, a.r * b)
            /\ op_out.op = "Displacement / i64"
                   => IF b = 0 \/ (b = -1 /\ I64Min \in {a.q, a.r})
                      THEN done.panicked
                      ELSE /\ ~done.panicked
                           /\ TruncatedQuotient(a.q, b, done.value.q)
                           /\ TruncatedQuotient(a.r, b, done.value.r)
            /\ op_out.op = "Displacement == Displacement"
                   => (done <=> (a.q = b.q /\ a.r = b.r))

\* (2, -5) / 2 has returned (1, -2): a negative quotient that is not exact
C21_NegativeQuotientTruncated ==
    /\ op_out # <<>>
    /\ op_out.op = "Displacement / i64"
    /\ op_out.lhs = [q |-> 2, r |-> -5]
    /\ op_out.rhs = 2
    /\ op_out.out = [panicked |-> FALSE, value |-> [q |-> 1, r |-> -2]]

\* C22: the generated solar system does not depend on the player count.  When
\* GameState::new has returned for a seed, a starting cursor and a player count,
\* and returns again for the same seed and cursor and the next player count (2
\* after 6, so that every two player counts are linked by such pairs), the two
\* worlds have the same major bodies and the same minor bodies (ids, names,
\* positions, radii, abundances), the same warheads and phase; they differ in
\* their stacks and leave the allocator at different cursors.
C22_PlayerCountIndependence ==
    (pc = "done" /\ first # <<>>) =>
        /\ num_players # first.num_players
        /\ game.major_bodies = first.game.major_bodies
        /\ game.minor_bodies = first.game.minor_bodies
        /\ game.warheads = first.game.warheads
        /\ game.phase = first.game.phase
        /\ game.stacks # first.game.stacks
        /\ Cardinality(DOMAIN game.stacks) = num_players
        /\ Cardinality(DOMAIN first.game.stacks) = first.num_players
        /\ next_id # first.next_id

\* a world for two players has been generated after one for six players, with
\* asteroids in both
C22_SixThenTwoPlayers ==
    /\ pc = "done"
    /\ first # <<>>
    /\ first.num_players = 6
    /\ num_players = 2
    /\ DOMAIN game.minor_bodies # {}
    /\ Cardinality(DOMAIN game.stacks) = 2
    /\ Cardinality(DOMAIN first.game.stacks) = 6

\* C23: no minor body shares a lattice cell with a major body.  In every world
\* GameState::new returns, the position of each minor body (main-belt asteroid,
\* Trojan, Greek, Hilda, Phobos, Deimos) differs from the position of every major
\* body (Sol, Mercury, Venus, Terra, Luna, Mars, Jupiter, Europa, Callisto,
\* Ganymede).
C23_MinorBodiesClearOfMajorBodies ==
    pc = "done" =>
        \A major \in DOMAIN game.major_bodies : \A minor \in DOMAIN game.minor_bodies :
            game.minor_bodies[minor].position # game.major_bodies[major].position

====
